---- MODULE Spec2Model ----
(***************************************************************************)
(* Model of sys_health_monitor.c: a kernel module whose timer callback     *)
(* poll_metrics samples memory, load and disk I/O every 5 s, publishes the *)
(* sample in the global `snapshot` under snap_lock, logs threshold alerts  *)
(* and rearms the timer, while /proc readers (proc_show) copy the snapshot *)
(* out under the same lock.                                                *)
(*                                                                         *)
(* Time is counted in jiffies of one second each.  The C types u32 / int   *)
(* and u64 / unsigned long are modelled with U32Bits and U64Bits bits, so  *)
(* that wrap-around and narrowing behave as in C within TLC's integers.    *)
(***************************************************************************)
EXTENDS Integers, Sequences, FiniteSets, TLC

\* ---------------------------------------------------------------- bounds
U32Bits == 14
U64Bits == 26
MaxJiffies == 11
MaxJiffiesRate == 16
MaxJiffiesThr == 11

U32 == 2 ^ U32Bits
U64 == 2 ^ U64Bits

CPUs == {1, 2}

\* ------------------------------------------------------- program constants
PollJiffies == 5
RateWindow == 5
MemShift == 10
FSHIFT == 11
SectorsPerPage == 8
DefaultMemThreshold == 100
DefaultCpuThreshold == 80
DefaultIoThreshold == 5000

\* ---------------------------------------------------------------- helpers
Max(a, b) == IF a >= b THEN a ELSE b

\* Conversion of a signed int to unsigned int (usual arithmetic conversions).
ToU32(x) == x % U32

\* struct sys_snapshot: the fields in declaration order.
Fields == <<"ts_ms", "free_mem_mib", "total_mem_mib", "load_pct", "io_rate_sps">>

\* The zero-initialised global `snapshot` (static storage).
ZeroSnap ==
  [ts_ms |-> 0, free_mem_mib |-> 0, total_mem_mib |-> 0, load_pct |-> 0,
   io_rate_sps |-> 0]

\* One member of a struct assignment `dst = src`.
CopyFieldSkipTs(dst, src, i) ==
  IF i = 1 THEN dst ELSE [dst EXCEPT ![Fields[i]] = src[Fields[i]]]

CopyField(dst, src, i) == [dst EXCEPT ![Fields[i]] = src[Fields[i]]]

\* snap_lock: its holder, a context <<kind, cpu>>, or NoHolder when free.
NoHolder == <<"none", 0>>

\* spin_lock stops spinning when the lock is free.
LockIgnored(l) == TRUE

LockAvailable(l) == l = NoHolder

\* jiffies_to_msecs(jiffies), an unsigned int.
jiffies_to_msecs(j) == (j * 1000) % U32

\* collect_memory: pages -> MiB, narrowed to u32.
collect_memory(freeram, totalram) ==
  [free_mib |-> (freeram \div (2 ^ MemShift)) % U32,
   total_mib |-> (totalram \div (2 ^ MemShift)) % U32]

\* collect_load_percent: avenrun[1] and num_online_cpus() -> percent.
collect_load_percent(avg_fp, ncpus) ==
  LET load_x100 == ((avg_fp * 100) % U64) \div (2 ^ FSHIFT)
      cores == Max(ncpus, 1)
  IN (load_x100 \div cores) % U32

\* collect_disk_ios, the cumulative counter: the block-layer sector sum on the
\* preferred path, page events converted to sectors on the fallback path.
io_total_of(have_disk, raw) ==
  IF have_disk THEN raw % U64 ELSE (raw * SectorsPerPage) % U64

\* collect_disk_ios, the delta logic: the returned u32 rate.
disk_rate(io_total, last) ==
  IF last = 0 THEN 0
  ELSE (((io_total - last) % U64) \div RateWindow) % U32

\* The three threshold tests of poll_metrics: a u32 against an int, which C
\* compares after converting the int to unsigned.
MemBelowOrEqual(free_mem_mib, threshold) == free_mem_mib <= ToU32(threshold)

MemBelow(free_mem_mib, threshold) == free_mem_mib < ToU32(threshold)

AboveOrEqual(value, threshold) == value >= ToU32(threshold)

Above(value, threshold) == value > ToU32(threshold)

\* mod_timer(&poll_timer, jiffies + msecs_to_jiffies(5000)) at the end of a cycle.
RearmFromLastFire(now, fired) == fired + PollJiffies

RearmExpires(now, fired) == now + PollJiffies

\* The timer core detaches an expired timer before it calls the callback: the
\* timer (flags 0, not periodic) stays inactive until mod_timer arms it again.
TimerStaysArmedOnFire(t) == [pending |-> TRUE, expires |-> t.expires + PollJiffies]

TimerOnFire(t) == [t EXCEPT !.pending = FALSE]

\* The statements of poll_metrics in program order: collect, stamp, publish
\* under the lock, the three tests each followed by its printk (skipped when
\* the test is false), mod_timer, return.
StmtEvalBeforePublish(p) ==
  CASE p = "mem" -> "load" [] p = "load" -> "io" [] p = "io" -> "ts"
    [] p = "ts" -> "chk_mem"
    [] p = "chk_mem" -> "pr_mem" [] p = "pr_mem" -> "chk_cpu"
    [] p = "chk_cpu" -> "pr_cpu" [] p = "pr_cpu" -> "chk_io"
    [] p = "chk_io" -> "pr_io" [] p = "pr_io" -> "lock"
    [] p = "lock" -> "copy" [] p = "copy" -> "unlock"
    [] p = "unlock" -> "rearm" [] p = "rearm" -> "idle"

StmtUnlockAfterAlerts(p) ==
  CASE p = "mem" -> "load" [] p = "load" -> "io" [] p = "io" -> "ts"
    [] p = "ts" -> "lock" [] p = "lock" -> "copy" [] p = "copy" -> "chk_mem"
    [] p = "chk_mem" -> "pr_mem" [] p = "pr_mem" -> "chk_cpu"
    [] p = "chk_cpu" -> "pr_cpu" [] p = "pr_cpu" -> "chk_io"
    [] p = "chk_io" -> "pr_io" [] p = "pr_io" -> "unlock"
    [] p = "unlock" -> "rearm" [] p = "rearm" -> "idle"

StmtAfter(p) ==
  CASE p = "mem" -> "load" [] p = "load" -> "io" [] p = "io" -> "ts"
    [] p = "ts" -> "lock" [] p = "lock" -> "copy" [] p = "copy" -> "unlock"
    [] p = "unlock" -> "chk_mem"
    [] p = "chk_mem" -> "pr_mem" [] p = "pr_mem" -> "chk_cpu"
    [] p = "chk_cpu" -> "pr_cpu" [] p = "pr_cpu" -> "chk_io"
    [] p = "chk_io" -> "pr_io" [] p = "pr_io" -> "rearm"
    [] p = "rearm" -> "idle"

\* ------------------------------------------------------------------ state
VARIABLES
  jiffies,             \* the kernel clock
  life,                \* position of sys_health_init
  proc_entry,          \* TRUE when /proc/sys_health is registered
  lifelog,             \* history: [armed_at, stop_mid] of init and exit
  poll_timer,          \* [pending, expires]
  snap_lock,           \* holder of the spinlock
  snapshot,            \* the published struct sys_snapshot
  last_io_ticks,       \* u64, previous cumulative counter
  io_fallback_logged,  \* bool
  fallback_msgs,       \* number of fallback diagnostics printed
  have_disk,           \* build: HAVE_DISK_STATS && HAVE_DISK_ITER
  mem_threshold, cpu_threshold, io_threshold,   \* module parameters (int)
  pcS,                 \* per CPU: position of poll_metrics in softirq context
  tmp,                 \* per CPU: the callback's local `tmp`
  wi,                  \* per CPU: next member of `snapshot = tmp` to copy
  cmp,                 \* per CPU: the limits the tests of this cycle read
  prov,                \* per CPU: the provider's values this cycle read
  klog,                \* alerts printed by the cycle in progress (or last)
  pcR,                 \* per CPU: position of proc_show in process context
  s,                   \* per CPU: the reader's local `s`
  ri,                  \* per CPU: next member of `s = snapshot` to copy
  rdPub,               \* per CPU: publishes completed when the reader locked
  pubs,                \* history: the snapshots published, in order
  fires,               \* history: the jiffies at which the timer fired
  rearms,              \* history: the jiffies at which each cycle rearmed
  est                  \* history: calls of collect_disk_ios [n, prev, cur, ret]

vars ==
  <<jiffies, life, proc_entry, lifelog, poll_timer, snap_lock, snapshot, last_io_ticks,
    io_fallback_logged, fallback_msgs, have_disk, mem_threshold, cpu_threshold,
    io_threshold, pcS, tmp, wi, cmp, prov, klog, pcR, s, ri, rdPub, pubs, fires,
    rearms, est>>

timerVars == <<poll_timer, fires, rearms>>
lockVars == <<snap_lock, snapshot, pubs>>
ioVars == <<last_io_ticks, io_fallback_logged, fallback_msgs, est>>
paramVars == <<mem_threshold, cpu_threshold, io_threshold>>
samplerVars == <<pcS, tmp, wi, cmp, prov, klog>>
readerVars == <<pcR, s, ri, rdPub>>
buildVars == <<have_disk>>
lifeVars == <<life, proc_entry, lifelog>>

NoCmp == [mem |-> 0, cpu |-> 0, io |-> 0]

NoRaw == [freeram |-> 0, totalram |-> 0, avg_fp |-> 0, ncpus |-> 0]

Init ==
  /\ jiffies = 0
  /\ life = "start"
  /\ proc_entry = FALSE
  /\ lifelog = [armed_at |-> 0, stop_mid |-> FALSE]
  /\ poll_timer = [pending |-> FALSE, expires |-> 0]
  /\ snap_lock = NoHolder
  /\ snapshot = ZeroSnap
  /\ last_io_ticks = 0
  /\ io_fallback_logged = FALSE
  /\ fallback_msgs = 0
  /\ have_disk \in BOOLEAN
  /\ mem_threshold = DefaultMemThreshold
  /\ cpu_threshold = DefaultCpuThreshold
  /\ io_threshold = DefaultIoThreshold
  /\ pcS = [c \in CPUs |-> "idle"]
  /\ tmp = [c \in CPUs |-> ZeroSnap]
  /\ wi = [c \in CPUs |-> 1]
  /\ cmp = [c \in CPUs |-> NoCmp]
  /\ prov = [c \in CPUs |-> NoRaw]
  /\ klog = <<>>
  /\ pcR = [c \in CPUs |-> "idle"]
  /\ s = [c \in CPUs |-> ZeroSnap]
  /\ ri = [c \in CPUs |-> 1]
  /\ rdPub = [c \in CPUs |-> 0]
  /\ pubs = <<>>
  /\ fires = <<>>
  /\ rearms = <<>>
  /\ est = [n |-> 0, prev |-> 0, cur |-> 0, ret |-> 0]

\* -------------------------------------------------------------- lifecycle
\* if (!proc_entry) return -ENOMEM; otherwise init goes on to the timer.
InitIgnoresProcCreate(ok) == "proc_ok"

InitAfterProcCreate(ok) == IF ok THEN "proc_ok" ELSE "failed"

\* sys_health_init up to proc_create: on NULL it returns -ENOMEM.
InitProcCreate(ok) ==
  /\ life = "start"
  /\ life' = InitAfterProcCreate(ok)
  /\ proc_entry' = ok
  /\ UNCHANGED <<jiffies, lifelog, timerVars, lockVars, ioVars, paramVars, samplerVars,
                 readerVars, buildVars>>

\* sys_health_init: timer_setup and the first mod_timer.
InitArmTimer ==
  /\ life = "proc_ok"
  /\ life' = "running"
  /\ poll_timer' = [pending |-> TRUE, expires |-> jiffies + PollJiffies]
  /\ lifelog' = [lifelog EXCEPT !.armed_at = jiffies]
  /\ UNCHANGED <<jiffies, proc_entry, fires, rearms, lockVars, ioVars,
                 paramVars, samplerVars, readerVars, buildVars>>

\* module_exit: rmmod calls sys_health_exit, at any time after a good init.
ExitBegin ==
  /\ life = "running"
  /\ life' = "del_timer"
  /\ lifelog' = [lifelog EXCEPT !.stop_mid = \E c \in CPUs : pcS[c] # "idle"]
  /\ UNCHANGED <<jiffies, proc_entry, timerVars, lockVars, ioVars, paramVars,
                 samplerVars, readerVars, buildVars>>

\* del_timer_sync returns once the callback is not running on any CPU, having
\* deactivated the timer if it was pending; until then it retries.
DelTimerNoWait(running) == TRUE

DelTimerSyncReturns(running) == running = {}

\* del_timer_sync(&poll_timer)
ExitDelTimerSync ==
  /\ life = "del_timer"
  /\ DelTimerSyncReturns({c \in CPUs : pcS[c] # "idle"})
  /\ poll_timer' = [poll_timer EXCEPT !.pending = FALSE]
  /\ life' = "proc_remove"
  /\ UNCHANGED <<jiffies, proc_entry, lifelog, fires, rearms, lockVars, ioVars,
                 paramVars, samplerVars, readerVars, buildVars>>

\* if (proc_entry) proc_remove(proc_entry): waits for the reads in flight.
ExitProcRemove ==
  /\ life = "proc_remove"
  /\ \A c \in CPUs : pcR[c] = "idle"
  /\ proc_entry' = FALSE
  /\ life' = "unloaded"
  /\ UNCHANGED <<jiffies, lifelog, timerVars, lockVars, ioVars, paramVars,
                 samplerVars, readerVars, buildVars>>

\* ------------------------------------------------------------------ clock
\* One jiffy passes.  An expired pending timer is run before the next jiffy.
Tick(limit) ==
  /\ jiffies < limit
  /\ ~(poll_timer.pending /\ jiffies >= poll_timer.expires)
  /\ jiffies' = jiffies + 1
  /\ UNCHANGED <<lifeVars, timerVars, lockVars, ioVars, paramVars, samplerVars,
                 readerVars, buildVars>>

\* One jiffy passes between two cycles: a cycle that takes less than a jiffy.
TickIdle(limit) ==
  /\ \A c \in CPUs : pcS[c] = "idle"
  /\ Tick(limit)

\* --------------------------------------------------- poll_metrics (softirq)
\* The timer softirq on CPU c runs the expired timer's callback.  It
\* interrupts whatever process context runs on that CPU.
Fire(c) ==
  /\ poll_timer.pending
  /\ jiffies >= poll_timer.expires
  /\ pcS[c] = "idle"
  /\ poll_timer' = TimerOnFire(poll_timer)
  /\ fires' = Append(fires, jiffies)
  /\ pcS' = [pcS EXCEPT ![c] = "mem"]
  /\ tmp' = [tmp EXCEPT ![c] = ZeroSnap]
  /\ wi' = [wi EXCEPT ![c] = 1]
  /\ cmp' = [cmp EXCEPT ![c] = NoCmp]
  /\ prov' = [prov EXCEPT ![c] = NoRaw]
  /\ klog' = <<>>
  /\ UNCHANGED <<jiffies, lifeVars, rearms, lockVars, ioVars, paramVars,
                 readerVars, buildVars>>

\* collect_memory(&tmp.free_mem_mib, &tmp.total_mem_mib)
PmCollectMemory(c, freeram, totalram) ==
  /\ pcS[c] = "mem"
  /\ LET m == collect_memory(freeram, totalram)
     IN tmp' = [tmp EXCEPT ![c].free_mem_mib = m.free_mib,
                           ![c].total_mem_mib = m.total_mib]
  /\ prov' = [prov EXCEPT ![c].freeram = freeram, ![c].totalram = totalram]
  /\ pcS' = [pcS EXCEPT ![c] = StmtAfter("mem")]
  /\ UNCHANGED <<jiffies, lifeVars, timerVars, lockVars, ioVars, paramVars,
                 wi, cmp, klog, readerVars, buildVars>>

\* tmp.load_pct = collect_load_percent()
PmCollectLoad(c, avg_fp, ncpus) ==
  /\ pcS[c] = "load"
  /\ tmp' = [tmp EXCEPT ![c].load_pct = collect_load_percent(avg_fp, ncpus)]
  /\ prov' = [prov EXCEPT ![c].avg_fp = avg_fp, ![c].ncpus = ncpus]
  /\ pcS' = [pcS EXCEPT ![c] = StmtAfter("load")]
  /\ UNCHANGED <<jiffies, lifeVars, timerVars, lockVars, ioVars, paramVars,
                 wi, cmp, klog, readerVars, buildVars>>

\* collect_disk_ios on the fallback path: io_fallback_logged = true.
FallbackNeverLatched(hd, logged) == logged

FallbackLoggedAfter(hd, logged) == logged \/ ~hd

\* tmp.io_rate_sps = collect_disk_ios()
PmCollectIo(c, raw) ==
  /\ pcS[c] = "io"
  /\ LET io_total == io_total_of(have_disk, raw)
         rate == disk_rate(io_total, last_io_ticks)
         first_fallback == ~have_disk /\ ~io_fallback_logged
     IN /\ io_fallback_logged' = FallbackLoggedAfter(have_disk, io_fallback_logged)
        /\ fallback_msgs' = IF first_fallback THEN fallback_msgs + 1
                            ELSE fallback_msgs
        /\ last_io_ticks' = io_total
        /\ tmp' = [tmp EXCEPT ![c].io_rate_sps = rate]
        /\ est' = [n |-> est.n + 1, prev |-> est.cur, cur |-> io_total,
                   ret |-> rate]
  /\ pcS' = [pcS EXCEPT ![c] = StmtAfter("io")]
  /\ UNCHANGED <<jiffies, prov, lifeVars, timerVars, lockVars, paramVars, wi, cmp,
                 klog, readerVars, buildVars>>

\* tmp.ts_ms = jiffies_to_msecs(jiffies)
PmStamp(c) ==
  /\ pcS[c] = "ts"
  /\ tmp' = [tmp EXCEPT ![c].ts_ms = jiffies_to_msecs(jiffies)]
  /\ pcS' = [pcS EXCEPT ![c] = StmtAfter("ts")]
  /\ UNCHANGED <<jiffies, prov, lifeVars, timerVars, lockVars, ioVars, paramVars,
                 wi, cmp, klog, readerVars, buildVars>>

\* spin_lock(&snap_lock): spins (stays at "lock") while the lock is held.
PmLock(c) ==
  /\ pcS[c] = "lock"
  /\ LockAvailable(snap_lock)
  /\ snap_lock' = <<"softirq", c>>
  /\ pcS' = [pcS EXCEPT ![c] = StmtAfter("lock")]
  /\ wi' = [wi EXCEPT ![c] = 1]
  /\ UNCHANGED <<jiffies, prov, lifeVars, timerVars, snapshot, pubs, ioVars,
                 paramVars, tmp, cmp, klog, readerVars, buildVars>>

\* snapshot = tmp, one member at a time.
PmCopy(c) ==
  /\ pcS[c] = "copy"
  /\ snapshot' = CopyField(snapshot, tmp[c], wi[c])
  /\ IF wi[c] = Len(Fields)
        THEN /\ pcS' = [pcS EXCEPT ![c] = StmtAfter("copy")]
             /\ wi' = [wi EXCEPT ![c] = 1]
        ELSE /\ wi' = [wi EXCEPT ![c] = wi[c] + 1]
             /\ UNCHANGED pcS
  /\ UNCHANGED <<jiffies, prov, lifeVars, timerVars, snap_lock, pubs, ioVars,
                 paramVars, tmp, cmp, klog, readerVars, buildVars>>

\* spin_unlock(&snap_lock): the publish of tmp is complete.
PmUnlock(c) ==
  /\ pcS[c] = "unlock"
  /\ snap_lock' = NoHolder
  /\ pubs' = Append(pubs, tmp[c])
  /\ pcS' = [pcS EXCEPT ![c] = StmtAfter("unlock")]
  /\ UNCHANGED <<jiffies, prov, lifeVars, timerVars, snapshot, ioVars, paramVars,
                 tmp, wi, cmp, klog, readerVars, buildVars>>

\* if (tmp.free_mem_mib < mem_threshold)
PmChkMem(c) ==
  /\ pcS[c] = "chk_mem"
  /\ cmp' = [cmp EXCEPT ![c].mem = mem_threshold]
  /\ pcS' = [pcS EXCEPT ![c] =
               IF MemBelow(tmp[c].free_mem_mib, mem_threshold)
                  THEN StmtAfter("chk_mem")
                  ELSE StmtAfter(StmtAfter("chk_mem"))]
  /\ UNCHANGED <<jiffies, prov, lifeVars, timerVars, lockVars, ioVars, paramVars,
                 tmp, wi, klog, readerVars, buildVars>>

\* printk(... tmp.free_mem_mib, mem_threshold): the parameter is a plain int
\* a write may race with, so the value printed is the one tested or the one
\* in memory now.
PmPrMem(c) ==
  /\ pcS[c] = "pr_mem"
  /\ \E lim \in {cmp[c].mem, mem_threshold} :
       klog' = Append(klog, [kind |-> "mem", observed |-> tmp[c].free_mem_mib,
                             limit |-> lim])
  /\ pcS' = [pcS EXCEPT ![c] = StmtAfter("pr_mem")]
  /\ UNCHANGED <<jiffies, prov, lifeVars, timerVars, lockVars, ioVars, paramVars,
                 tmp, wi, cmp, readerVars, buildVars>>

\* if (tmp.load_pct > cpu_threshold)
PmChkCpu(c) ==
  /\ pcS[c] = "chk_cpu"
  /\ cmp' = [cmp EXCEPT ![c].cpu = cpu_threshold]
  /\ pcS' = [pcS EXCEPT ![c] =
               IF Above(tmp[c].load_pct, cpu_threshold)
                  THEN StmtAfter("chk_cpu")
                  ELSE StmtAfter(StmtAfter("chk_cpu"))]
  /\ UNCHANGED <<jiffies, prov, lifeVars, timerVars, lockVars, ioVars, paramVars,
                 tmp, wi, klog, readerVars, buildVars>>

\* printk(... tmp.load_pct, cpu_threshold)
PmPrCpu(c) ==
  /\ pcS[c] = "pr_cpu"
  /\ \E lim \in {cmp[c].cpu, cpu_threshold} :
       klog' = Append(klog, [kind |-> "cpu", observed |-> tmp[c].load_pct,
                             limit |-> lim])
  /\ pcS' = [pcS EXCEPT ![c] = StmtAfter("pr_cpu")]
  /\ UNCHANGED <<jiffies, prov, lifeVars, timerVars, lockVars, ioVars, paramVars,
                 tmp, wi, cmp, readerVars, buildVars>>

\* if (tmp.io_rate_sps > io_threshold)
PmChkIo(c) ==
  /\ pcS[c] = "chk_io"
  /\ cmp' = [cmp EXCEPT ![c].io = io_threshold]
  /\ pcS' = [pcS EXCEPT ![c] =
               IF Above(tmp[c].io_rate_sps, io_threshold)
                  THEN StmtAfter("chk_io")
                  ELSE StmtAfter(StmtAfter("chk_io"))]
  /\ UNCHANGED <<jiffies, prov, lifeVars, timerVars, lockVars, ioVars, paramVars,
                 tmp, wi, klog, readerVars, buildVars>>

\* printk(... tmp.io_rate_sps, io_threshold)
PmPrIo(c) ==
  /\ pcS[c] = "pr_io"
  /\ \E lim \in {cmp[c].io, io_threshold} :
       klog' = Append(klog, [kind |-> "io", observed |-> tmp[c].io_rate_sps,
                             limit |-> lim])
  /\ pcS' = [pcS EXCEPT ![c] = StmtAfter("pr_io")]
  /\ UNCHANGED <<jiffies, prov, lifeVars, timerVars, lockVars, ioVars, paramVars,
                 tmp, wi, cmp, readerVars, buildVars>>

\* mod_timer(&poll_timer, jiffies + msecs_to_jiffies(5000)); return.  The
\* locals die, and the window on the log closes.
PmRearm(c) ==
  /\ pcS[c] = "rearm"
  /\ poll_timer' = [pending |-> TRUE,
                    expires |-> RearmExpires(jiffies, fires[Len(fires)])]
  /\ rearms' = Append(rearms, jiffies)
  /\ pcS' = [pcS EXCEPT ![c] = StmtAfter("rearm")]
  /\ tmp' = [tmp EXCEPT ![c] = ZeroSnap]
  /\ cmp' = [cmp EXCEPT ![c] = NoCmp]
  /\ prov' = [prov EXCEPT ![c] = NoRaw]
  /\ klog' = <<>>
  /\ UNCHANGED <<jiffies, lifeVars, fires, lockVars, ioVars, paramVars, wi,
                 readerVars, buildVars>>

\* ------------------------------------------------ proc_show (process context)
\* A process on CPU c runs only while no softirq runs on that CPU.
ProcRuns(c) == pcS[c] = "idle"

\* One member of `s = snapshot`: the local is the destination, the store the
\* source.
RdAssignReversed(local, store, i) ==
  [local |-> local, store |-> CopyField(store, local, i)]

RdAssign(local, store, i) ==
  [local |-> CopyField(local, store, i), store |-> store]

\* A read of /proc/sys_health enters proc_show.
RdStart(c) ==
  /\ proc_entry
  /\ ProcRuns(c)
  /\ pcR[c] = "idle"
  /\ pcR' = [pcR EXCEPT ![c] = "lock"]
  /\ UNCHANGED <<jiffies, lifeVars, timerVars, lockVars, ioVars, paramVars,
                 samplerVars, s, ri, rdPub, buildVars>>

\* spin_lock(&snap_lock)
RdLock(c) ==
  /\ ProcRuns(c)
  /\ pcR[c] = "lock"
  /\ LockAvailable(snap_lock)
  /\ snap_lock' = <<"proc", c>>
  /\ pcR' = [pcR EXCEPT ![c] = "copy"]
  /\ ri' = [ri EXCEPT ![c] = 1]
  /\ rdPub' = [rdPub EXCEPT ![c] = Len(pubs)]
  /\ UNCHANGED <<jiffies, lifeVars, timerVars, snapshot, pubs, ioVars,
                 paramVars, samplerVars, s, buildVars>>

\* s = snapshot, one member at a time.
RdCopy(c) ==
  /\ ProcRuns(c)
  /\ pcR[c] = "copy"
  /\ s' = [s EXCEPT ![c] = RdAssign(s[c], snapshot, ri[c]).local]
  /\ snapshot' = RdAssign(s[c], snapshot, ri[c]).store
  /\ IF ri[c] = Len(Fields)
        THEN /\ pcR' = [pcR EXCEPT ![c] = "unlock"]
             /\ ri' = [ri EXCEPT ![c] = 1]
        ELSE /\ ri' = [ri EXCEPT ![c] = ri[c] + 1]
             /\ UNCHANGED pcR
  /\ UNCHANGED <<jiffies, lifeVars, timerVars, snap_lock, pubs, ioVars,
                 paramVars, samplerVars, rdPub, buildVars>>

\* spin_unlock(&snap_lock)
RdUnlock(c) ==
  /\ ProcRuns(c)
  /\ pcR[c] = "unlock"
  /\ snap_lock' = NoHolder
  /\ pcR' = [pcR EXCEPT ![c] = "format"]
  /\ UNCHANGED <<jiffies, lifeVars, timerVars, snapshot, pubs, ioVars,
                 paramVars, samplerVars, s, ri, rdPub, buildVars>>

\* seq_printf of the five members of s; return 0.  The local dies.
RdFormat(c) ==
  /\ ProcRuns(c)
  /\ pcR[c] = "format"
  /\ pcR' = [pcR EXCEPT ![c] = "idle"]
  /\ s' = [s EXCEPT ![c] = ZeroSnap]
  /\ rdPub' = [rdPub EXCEPT ![c] = 0]
  /\ UNCHANGED <<jiffies, lifeVars, timerVars, lockVars, ioVars, paramVars,
                 samplerVars, ri, buildVars>>

\* ------------------------------------------------------ module parameters
\* An administrator writes /sys/module/.../parameters/<name> (mode 0644).
SetParam(name, v) ==
  /\ life = "running"
  /\ mem_threshold' = IF name = "mem" THEN v ELSE mem_threshold
  /\ cpu_threshold' = IF name = "cpu" THEN v ELSE cpu_threshold
  /\ io_threshold' = IF name = "io" THEN v ELSE io_threshold
  /\ paramVars' # paramVars
  /\ UNCHANGED <<jiffies, lifeVars, timerVars, lockVars, ioVars, samplerVars,
                 readerVars, buildVars>>

\* ----------------------------------------------------- the provider's values
\* <<freeram, totalram>> in pages, as si_meminfo reports them.
MemReadings == {<<90 * 1024, 200 * 1024>>}

\* <<avenrun[1], num_online_cpus()>>: a load of 0.85 on one core.
LoadReadings == {<<1741, 1>>}

\* Cumulative I/O counters (sectors, or pages on the fallback path).
IoReadings == {1000, 31000}

\* ----------------------------------------------- sampler and readers together
Lifecycle == (\E ok \in BOOLEAN : InitProcCreate(ok)) \/ InitArmTimer

Collect(c) ==
  \/ \E m \in MemReadings : PmCollectMemory(c, m[1], m[2])
  \/ \E l \in LoadReadings : PmCollectLoad(c, l[1], l[2])
  \/ \E raw \in IoReadings : PmCollectIo(c, raw)
  \/ PmStamp(c)

Publish(c) == PmLock(c) \/ PmCopy(c) \/ PmUnlock(c)

Evaluate(c) ==
  \/ PmChkMem(c) \/ PmPrMem(c)
  \/ PmChkCpu(c) \/ PmPrCpu(c)
  \/ PmChkIo(c) \/ PmPrIo(c)

Reader(c) == RdStart(c) \/ RdLock(c) \/ RdCopy(c) \/ RdUnlock(c) \/ RdFormat(c)

Next ==
  \/ Lifecycle
  \/ Tick(MaxJiffies)
  \/ \E c \in CPUs : Fire(c) \/ Collect(c) \/ Publish(c) \/ Evaluate(c) \/ PmRearm(c)
  \/ \E c \in CPUs : Reader(c)

Spec == Init /\ [][Next]_vars

\* ------------------------------------------------- the sampler on its own
\* The cycles of poll_metrics on one CPU with no reader, over a wider range of
\* cumulative counters: resets to 0, increases, decreases and large jumps.
RateIoReadings == {0, 10, 500, 1000, 31000, 100000}

CollectRate(c) ==
  \/ \E m \in MemReadings : PmCollectMemory(c, m[1], m[2])
  \/ \E l \in LoadReadings : PmCollectLoad(c, l[1], l[2])
  \/ \E raw \in RateIoReadings : PmCollectIo(c, raw)
  \/ PmStamp(c)

NextRate ==
  \/ Lifecycle
  \/ TickIdle(MaxJiffiesRate)
  \/ Fire(1) \/ CollectRate(1) \/ Publish(1) \/ Evaluate(1) \/ PmRearm(1)

SpecRate == Init /\ [][NextRate]_vars

\* -------------------------------------- the sampler and the administrator
\* Readings around the limits: free memory 90, 100, 200 MiB; load 50, 80,
\* 85 percent of one core; counters giving the rates 100, 5000 and 6000.
ThrMemReadings ==
  {<<90 * 1024, 200 * 1024>>, <<100 * 1024, 200 * 1024>>,
   <<200 * 1024, 200 * 1024>>}

ThrLoadReadings == {<<1024, 1>>, <<1639, 1>>, <<1741, 1>>}

ThrIoReadings == {1000, 1500, 26000, 31000}

\* Values an administrator writes: any int, here the defaults and -1.
ThrParamValues ==
  [mem |-> {DefaultMemThreshold, -1}, cpu |-> {DefaultCpuThreshold, -1},
   io |-> {DefaultIoThreshold, -1}]

CollectThr(c) ==
  \/ \E m \in ThrMemReadings : PmCollectMemory(c, m[1], m[2])
  \/ \E l \in ThrLoadReadings : PmCollectLoad(c, l[1], l[2])
  \/ \E raw \in ThrIoReadings : PmCollectIo(c, raw)
  \/ PmStamp(c)

Admin == \E name \in {"mem", "cpu", "io"} : \E v \in ThrParamValues[name] : SetParam(name, v)

NextThr ==
  \/ Lifecycle
  \/ TickIdle(MaxJiffiesThr)
  \/ Fire(1) \/ CollectThr(1) \/ Publish(1) \/ Evaluate(1) \/ PmRearm(1)
  \/ Admin

InitThr == Init /\ have_disk

SpecThr == InitThr /\ [][NextThr]_vars

\* ------------------------ the administrator writing during an evaluation
\* Non-negative values on both sides of the readings 90 MiB, 85 percent and
\* 6000 sectors/s: each default and a value the reading does not breach.
RaceParamValues ==
  [mem |-> {DefaultMemThreshold, DefaultMemThreshold \div 2},
   cpu |-> {DefaultCpuThreshold, 2 * DefaultCpuThreshold},
   io |-> {DefaultIoThreshold, 2 * DefaultIoThreshold}]

AdminRace ==
  \E name \in {"mem", "cpu", "io"} : \E v \in RaceParamValues[name] : SetParam(name, v)

NextRace ==
  \/ Lifecycle
  \/ TickIdle(MaxJiffiesThr)
  \/ Fire(1) \/ Collect(1) \/ Publish(1) \/ Evaluate(1) \/ PmRearm(1)
  \/ AdminRace

SpecRace == Init /\ [][NextRace]_vars

\* --------------------------------------- the sampler over provider values
\* Cycles of poll_metrics over memory sizes and load averages up to the
\* widths of their C types: <<freeram, totalram>> in pages, with totals whose
\* MiB count no longer fits a u32, and <<avenrun[1], num_online_cpus()>> with
\* 0 CPUs and with averages whose percentage no longer fits.
MaxJiffiesProv == 11

ProvMemReadings ==
  {<<90 * 1024, 200 * 1024>>, <<200 * 1024, 90 * 1024>>,
   <<200 * 1024, (U32 + 5) * (2 ^ MemShift)>>,
   <<U32 * (2 ^ MemShift), (U32 + 5) * (2 ^ MemShift)>>}

ProvLoadReadings ==
  {<<1024, 0>>, <<1741, 0>>, <<1741, 1>>, <<1741, 2>>, <<400000, 1>>,
   <<700000, 1>>}

CollectProv(c) ==
  \/ \E m \in ProvMemReadings : PmCollectMemory(c, m[1], m[2])
  \/ \E l \in ProvLoadReadings : PmCollectLoad(c, l[1], l[2])
  \/ \E r \in IoReadings : PmCollectIo(c, r)
  \/ PmStamp(c)

NextProv ==
  \/ Lifecycle
  \/ TickIdle(MaxJiffiesProv)
  \/ Fire(1) \/ CollectProv(1) \/ Publish(1) \/ Evaluate(1) \/ PmRearm(1)

SpecProv == InitThr /\ [][NextProv]_vars

\* ------------------------------------------------- load, run and unload
Unload == ExitBegin \/ ExitDelTimerSync \/ ExitProcRemove

NextLife == Next \/ Unload

SpecLife == Init /\ [][NextLife]_vars

\* ================================================================ claims
Running == {c \in CPUs : pcS[c] # "idle"}

AlertKinds == {klog[i].kind : i \in 1..Len(klog)}

\* C1: whatever the interleaving of readers and sampler cycles, the copy a
\* reader holds when it has left the critical section is the all-zero initial
\* snapshot or equal, member for member, to the snapshot of one single publish.
C1_NoTornRead ==
  \A c \in CPUs :
    pcR[c] = "format" =>
      (s[c] = ZeroSnap \/ \E k \in 1..Len(pubs) : s[c] = pubs[k])

\* A reader has copied a published snapshot out while the sampler on the
\* other CPU, one cycle later, is waiting at the lock.
C1_Witness ==
  \E c \in CPUs, d \in CPUs :
    /\ pcR[c] = "format" /\ Len(pubs) >= 1 /\ s[c] = pubs[Len(pubs)]
    /\ pcS[d] = "lock" /\ Len(fires) >= 2

\* C2: the sampler never waits at snap_lock for a holder that cannot run: a
\* reader on the sampler's own CPU, which the softirq has interrupted.
C2_SamplerNeverStuck ==
  \A c \in CPUs : ~(pcS[c] = "lock" /\ snap_lock = <<"proc", c>>)

\* C3: the first call of collect_disk_ios returns 0 and makes its counter the
\* baseline; a later call with counter = previous + k, k >= 0, returns
\* floor(k / 5) and makes the counter the new previous value.  (Stated for the
\* k whose quotient fits the u32 result; larger ones are C8's subject.)
C3_RateEstimator ==
  /\ est.n = 1 => (est.ret = 0 /\ last_io_ticks = est.cur)
  /\ (est.n >= 2 /\ est.cur >= est.prev
        /\ (est.cur - est.prev) \div RateWindow < U32)
       => (est.ret = (est.cur - est.prev) \div RateWindow
             /\ last_io_ticks = est.cur)

\* C4: a read that takes the lock before the first publish returns the
\* all-zero snapshot; a read that takes it after the publish of S and before
\* the next publish returns S in every member.
C4_ReadReturnsLastPublished ==
  \A c \in CPUs :
    pcR[c] = "format" =>
      s[c] = (IF rdPub[c] = 0 THEN ZeroSnap ELSE pubs[rdPub[c]])

\* One reader holds a copy taken before the first publish, the other a copy
\* taken after a publish.
C4_Witness ==
  \E c \in CPUs, d \in CPUs :
    /\ pcR[c] = "format" /\ rdPub[c] = 0 /\ s[c] = ZeroSnap
    /\ pcR[d] = "format" /\ rdPub[d] >= 1 /\ s[d] = pubs[rdPub[d]]
    /\ s[d] # ZeroSnap

\* The alerts the claim expects of a cycle: integer comparisons of the
\* measured values with the limits the cycle read.
ExpectedAlerts(c) ==
  (IF tmp[c].free_mem_mib < cmp[c].mem THEN {"mem"} ELSE {})
    \cup (IF tmp[c].load_pct > cmp[c].cpu THEN {"cpu"} ELSE {})
    \cup (IF tmp[c].io_rate_sps > cmp[c].io THEN {"io"} ELSE {})

\* C5: when a cycle has evaluated its three tests, the alerts it printed are
\* exactly: memory if free_memory < memory_floor, CPU if load_percent >
\* cpu_ceiling, I/O if io_rate > io_ceiling, one line each; so (90, 85, 6000)
\* against 100/80/5000 prints three and (200, 50, 100) none.
C5_AlertSet ==
  \A c \in CPUs :
    pcS[c] = "rearm" =>
      (AlertKinds = ExpectedAlerts(c)
         /\ Len(klog) = Cardinality(ExpectedAlerts(c)))

\* C6: a measured value equal to its limit prints no alert of that kind.
C6_StrictAtLimit ==
  \A c \in CPUs :
    pcS[c] = "rearm" =>
      /\ tmp[c].free_mem_mib = cmp[c].mem => "mem" \notin AlertKinds
      /\ tmp[c].load_pct = cmp[c].cpu => "cpu" \notin AlertKinds
      /\ tmp[c].io_rate_sps = cmp[c].io => "io" \notin AlertKinds

\* A cycle measured exactly the three limits.
C6_Witness ==
  \E c \in CPUs :
    /\ pcS[c] = "rearm"
    /\ tmp[c].free_mem_mib = cmp[c].mem /\ cmp[c].mem = DefaultMemThreshold
    /\ tmp[c].load_pct = cmp[c].cpu /\ cmp[c].cpu = DefaultCpuThreshold
    /\ tmp[c].io_rate_sps = cmp[c].io /\ cmp[c].io = DefaultIoThreshold

\* C7: for every int an administrator sets, negative ones included, each test
\* is the comparison of integers: a memory alert iff free_memory <
\* memory_floor, a CPU alert iff load_percent > cpu_ceiling, an I/O alert iff
\* io_rate > io_ceiling.
C7_IntegerComparison ==
  \A c \in CPUs :
    pcS[c] = "rearm" =>
      /\ ("mem" \in AlertKinds) <=> (tmp[c].free_mem_mib < cmp[c].mem)
      /\ ("cpu" \in AlertKinds) <=> (tmp[c].load_pct > cmp[c].cpu)
      /\ ("io" \in AlertKinds) <=> (tmp[c].io_rate_sps > cmp[c].io)

\* C8: on every call after the baseline is set, the rate returned is
\* max(counter - previous, 0) / 5: 0 when the counter went down, and the
\* whole quotient otherwise.
C8_RateSaturates ==
  (est.n >= 2 /\ est.prev # 0) =>
    est.ret = Max(est.cur - est.prev, 0) \div RateWindow

\* C9: at most one execution of poll_metrics is in progress, and the timer is
\* never pending while one is.
C9_NoOverlap ==
  /\ Cardinality(Running) <= 1
  /\ poll_timer.pending => Running = {}

\* A second cycle is in progress.
C9_Witness == Len(fires) >= 2 /\ Running # {}

\* C10 as claimed: the n-th tick fires at first_fire_time + 5 s * (n - 1).
C10_NoDrift ==
  \A n \in 1..Len(fires) : fires[n] = fires[1] + PollJiffies * (n - 1)

\* C10 as amended: a cycle arms the next tick 5 s after the time of its
\* rearm, so a tick fires no earlier than 5 s after the previous cycle ended.
C10_RearmFromNow ==
  /\ (poll_timer.pending /\ Len(rearms) >= 1)
       => poll_timer.expires = rearms[Len(rearms)] + PollJiffies
  /\ \A n \in 2..Len(fires) : fires[n] >= rearms[n - 1] + PollJiffies

\* A second tick has fired after a first cycle that took time.
C10_Witness == Len(fires) >= 2 /\ rearms[1] > fires[1]

\* C11: once sys_health_exit has returned from del_timer_sync, no cycle is
\* running, the timer is not pending and every cycle that started has ended,
\* also when exit was called in the middle of a cycle that then rearmed the
\* timer; before that, init arms the first tick 5 s after the arming and no
\* cycle runs before it.
C11_StopIsFinal ==
  /\ life \in {"proc_remove", "unloaded"}
       => (Running = {} /\ ~poll_timer.pending /\ Len(rearms) = Len(fires))
  /\ life \in {"start", "proc_ok", "failed"} => (fires = <<>> /\ Running = {})
  /\ (life = "running" /\ fires = <<>>)
       => (poll_timer.pending
             /\ poll_timer.expires = lifelog.armed_at + PollJiffies)
  /\ Len(fires) >= 1 => fires[1] >= lifelog.armed_at + PollJiffies

\* The module is unloaded after an exit that was called while a cycle was
\* executing; that cycle ran to its rearm.
C11_Witness ==
  life = "unloaded" /\ lifelog.stop_mid /\ Len(rearms) >= 1

\* C12: on a build that uses the fallback strategy the selection diagnostic
\* is printed by the first tick and by no later one: after n >= 1 ticks it has
\* been printed exactly once and io_fallback_logged is true.
C12_FallbackLoggedOnce ==
  /\ have_disk => fallback_msgs = 0
  /\ (~have_disk /\ est.n = 0) => (fallback_msgs = 0 /\ ~io_fallback_logged)
  /\ (~have_disk /\ est.n >= 1) => (fallback_msgs = 1 /\ io_fallback_logged)

\* Three ticks have used the fallback strategy.
C12_Witness == ~have_disk /\ est.n >= 3 /\ fallback_msgs = 1

\* C13: whenever the provider reports freeram <= totalram, the snapshot the
\* cycle publishes has free_mem_mib <= total_mem_mib, for all provider values.
C13_MemoryPassThrough ==
  \A c \in CPUs :
    (pcS[c] = "chk_mem" /\ prov[c].freeram <= prov[c].totalram) =>
      pubs[Len(pubs)].free_mem_mib <= pubs[Len(pubs)].total_mem_mib

\* C14: for every load value avg and core count n, collect_load_percent
\* returns floor(floor(avg * 100 / 2^FSHIFT) / max(n, 1)); n = 0 counts as 1.
C14_LoadPercent ==
  \A c \in CPUs :
    pcS[c] = "io" =>
      tmp[c].load_pct =
        ((prov[c].avg_fp * 100) \div (2 ^ FSHIFT)) \div Max(prov[c].ncpus, 1)

\* The statements of one cycle before its publish is complete, and after.
Collecting == {"mem", "load", "io", "ts", "lock", "copy", "unlock"}

Evaluating == {"chk_mem", "pr_mem", "chk_cpu", "pr_cpu", "chk_io", "pr_io", "rearm"}

KindField(snap, kind) ==
  CASE kind = "mem" -> snap.free_mem_mib
    [] kind = "cpu" -> snap.load_pct
    [] kind = "io" -> snap.io_rate_sps

\* C15: every cycle collects, then publishes its snapshot exactly once, then
\* tests the thresholds and prints the alerts, then rearms the timer exactly
\* once.  No alert is printed and no rearm done before the publish; each
\* alert's observed value is the member of the snapshot published in this
\* cycle; and when the cycle has returned the timer is pending PollJiffies
\* after the rearm, whatever the number of alerts printed.
C15_CycleOrder ==
  /\ \A c \in CPUs :
       /\ pcS[c] \in Collecting =>
            /\ Len(pubs) = Len(fires) - 1
            /\ Len(rearms) = Len(fires) - 1
            /\ klog = <<>>
            /\ ~poll_timer.pending
       /\ pcS[c] \in Evaluating =>
            /\ Len(pubs) = Len(fires)
            /\ pubs[Len(pubs)] = tmp[c]
            /\ Len(rearms) = Len(fires) - 1
            /\ ~poll_timer.pending
            /\ \A i \in 1..Len(klog) :
                 klog[i].observed = KindField(pubs[Len(pubs)], klog[i].kind)
            /\ \A i, j \in 1..Len(klog) : i < j => klog[i].kind # klog[j].kind
  /\ Running = {} =>
       /\ Len(pubs) = Len(fires)
       /\ Len(rearms) = Len(fires)
       /\ klog = <<>>
       /\ Len(rearms) >= 1 =>
            (poll_timer.pending
               /\ poll_timer.expires = rearms[Len(rearms)] + PollJiffies)

C15_Witness ==
  \E c \in CPUs :
    pcS[c] = "rearm" /\ Len(fires) = 2 /\ Len(klog) = 3 /\ Len(pubs) = 2

\* C16: while snap_lock is held its holder is inside the struct copy or at
\* the unlock that follows it, and a context is at those two statements only
\* while it holds the lock: the provider queries, the printk lines, the
\* seq_printf formatting and mod_timer all execute with the lock released.
C16_LockHeldOnlyForCopy ==
  \A c \in CPUs :
    /\ snap_lock = <<"softirq", c>> <=> pcS[c] \in {"copy", "unlock"}
    /\ snap_lock = <<"proc", c>> <=> pcR[c] \in {"copy", "unlock"}

C16_Witness ==
  \E c, d \in CPUs :
    /\ snap_lock = <<"softirq", c>> /\ pcS[c] = "unlock"
    /\ pcR[d] = "lock"
    /\ Len(pubs) >= 1

\* A step of the read running on CPU c.
ReadStep(c) == pcR'[c] # pcR[c] \/ s'[c] # s[c] \/ ri'[c] # ri[c]

\* C17: no step of a read changes the stored snapshot, last_io_ticks, the
\* fallback-logged flag or the timer; the copy a read formats stays what it
\* copied whatever is published meanwhile; and every change of the stored
\* snapshot is one member of the sampler's `snapshot = tmp`, made by the
\* sampler holding the lock.
C17_ReadFrame ==
  [][/\ \A c \in CPUs :
          /\ ReadStep(c) =>
               /\ snapshot' = snapshot
               /\ last_io_ticks' = last_io_ticks
               /\ io_fallback_logged' = io_fallback_logged
               /\ poll_timer' = poll_timer
          /\ (pcR[c] = "format" /\ ~ReadStep(c)) => s'[c] = s[c]
     /\ snapshot' # snapshot =>
          \E c \in CPUs :
            /\ pcS[c] = "copy"
            /\ snap_lock = <<"softirq", c>>
            /\ snapshot' = CopyField(snapshot, tmp[c], wi[c])]_vars

C17_Witness ==
  \E c \in CPUs :
    /\ pcR[c] = "format"
    /\ s[c] # ZeroSnap
    /\ s[c] # snapshot
    /\ Len(pubs) >= 2

\* C18: every alert printed in a cycle reports the limit its test compared
\* against, so a memory alert shows observed < limit and a CPU or I/O alert
\* observed > limit, also when a threshold is written during the evaluation.
C18_ReportsComparedLimit ==
  \A c \in Running :
    \A i \in 1..Len(klog) :
      /\ klog[i].limit = cmp[c][klog[i].kind]
      /\ klog[i].kind = "mem" => klog[i].observed < klog[i].limit
      /\ klog[i].kind # "mem" => klog[i].observed > klog[i].limit

\* C19: when proc_create fails, sys_health_init returns -ENOMEM before
\* timer_setup and mod_timer: whenever the module has no read endpoint after
\* its start was attempted, the start has failed, the timer is not pending, no
\* cycle has fired or runs, nothing was published and the snapshot is all-zero.
C19_FailedStartArmsNothing ==
  (life \notin {"start", "unloaded"} /\ ~proc_entry) =>
    /\ life = "failed"
    /\ ~poll_timer.pending
    /\ fires = <<>>
    /\ rearms = <<>>
    /\ pubs = <<>>
    /\ snapshot = ZeroSnap
    /\ Running = {}
    /\ \A c \in CPUs : pcR[c] = "idle"

C19_Witness == life = "failed" /\ ~proc_entry /\ jiffies > PollJiffies

====
